---- MODULE Spec2Model ----
(***************************************************************************)
(* A model of the clamd client of clamd.go: the public operations of       *)
(* Clamd (Ping, Version, Stats, Reload, Shutdown, the five scan-file       *)
(* variants and ScanStream), the goroutines they start and the connection  *)
(* they open.  One behaviour is one call of one operation against one      *)
(* daemon reply.                                                           *)
(*                                                                         *)
(* Text is a sequence of one-character strings, so that prefix tests,      *)
(* slicing and trimming are computed as the Go code computes them.         *)
(***************************************************************************)
EXTENDS Integers, Sequences, FiniteSets, TLC

\* ------------------------------------------------------------------ bounds
\* longest daemon reply, in records
MaxReply == 2
\* number of bytes the byte source of ScanStream holds
MaxSrc == 3

\* ------------------------------------------------- conn.go (not in src/)
\* largest chunk the upload loop reads and sends
CHUNK_SIZE == 2
\* capacity of the channel readResponse returns
ChanCap == 1

\* --------------------------------------------------------------- the text
PONG == <<"P","O","N","G">>
RELOADING == <<"R","E","L","O","A","D","I","N","G">>
PfxPools == <<"P","O","O","L","S">>
PfxState == <<"S","T","A","T","E">>
PfxThreads == <<"T","H","R","E","A","D","S">>
PfxQueue == <<"Q","U","E","U","E">>
PfxMemstats == <<"M","E","M","S","T","A","T","S">>
PfxEnd == <<"E","N","D">>

\* "POOLS: 1 "
PoolsLine == PfxPools \o <<":"," ","1"," ">>
\* "STATE: V"
StateLine == PfxState \o <<":"," ","V">>
\* "THREADS: 1"
ThreadsLine == PfxThreads \o <<":"," ","1">>
\* "QUEUE: 0"
QueueLine == PfxQueue \o <<":"," ","0">>
\* "MEMSTATS: h"
MemstatsLine == PfxMemstats \o <<":"," ","h">>
\* "BOGUS: x"
BogusLine == <<"B","O","G","U","S",":"," ","x">>
\* "f: OK"
OkLine == <<"f",":"," ","O","K">>
\* "f: X FOUND"
FoundLine == <<"f",":"," ","X"," ","F","O","U","N","D">>
\* "ClamAV 1"
VersionLine == <<"C","l","a","m","A","V"," ","1">>

\* the empty string
Empty == <<>>

\* strings.HasPrefix(s, p)
HasPrefix(s, p) == Len(s) >= Len(p) /\ SubSeq(s, 1, Len(p)) = p

RECURSIVE TrimLeft(_)
\* strings.TrimLeft(s, " ")
TrimLeft(s) == IF s # <<>> /\ Head(s) = " " THEN TrimLeft(Tail(s)) ELSE s

RECURSIVE TrimRight(_)
\* strings.TrimRight(s, " ")
TrimRight(s) == IF s # <<>> /\ s[Len(s)] = " " THEN TrimRight(SubSeq(s, 1, Len(s) - 1)) ELSE s

\* strings.Trim(s, " ")
Trim(s) == TrimRight(TrimLeft(s))

\* s[n:] is defined when n <= len(s); otherwise the slice expression panics
SliceOK(s, n) == n <= Len(s)

\* s[n:]
SliceFrom(s, n) == SubSeq(s, n + 1, Len(s))

\* ------------------------------------------------------------- net/url
Letters == {"a","b","c","d","e","f","g","h","i","j","k","l","m","n","o","p",
            "q","r","s","t","u","v","w","x","y","z","A","B","C","D","E","F",
            "G","H","I","J","K","L","M","N","O","P","Q","R","S","T","U","V",
            "W","X","Y","Z"}

Digits == {"0","1","2","3","4","5","6","7","8","9"}

UpperCase == <<"A","B","C","D","E","F","G","H","I","J","K","L","M","N","O","P",
               "Q","R","S","T","U","V","W","X","Y","Z">>

LowerCase == <<"a","b","c","d","e","f","g","h","i","j","k","l","m","n","o","p",
               "q","r","s","t","u","v","w","x","y","z">>

\* strings.ToLower(s)
ToLower(s) ==
  [i \in 1..Len(s) |->
     IF \E k \in 1..26 : UpperCase[k] = s[i]
       THEN LowerCase[CHOOSE k \in 1..26 : UpperCase[k] = s[i]]
       ELSE s[i]]

\* the position of the first c in s, 0 when there is none
IndexOf(s, c) ==
  IF \E i \in 1..Len(s) : s[i] = c
    THEN CHOOSE i \in 1..Len(s) : s[i] = c /\ \A j \in 1..(i - 1) : s[j] # c
    ELSE 0

\* the position of the last c in s, 0 when there is none
LastIndexOf(s, c) ==
  IF \E i \in 1..Len(s) : s[i] = c
    THEN CHOOSE i \in 1..Len(s) : s[i] = c /\ \A j \in (i + 1)..Len(s) : s[j] # c
    ELSE 0

RECURSIVE GetScheme(_, _)
\* url.getScheme: the scheme is the run of letters (after the first
\* character also digits, +, - and .) that ends at the first ':'; a URL that
\* starts with ':' has no protocol scheme and does not parse
GetScheme(s, i) ==
  IF i > Len(s) THEN [err |-> FALSE, scheme |-> Empty, rest |-> s]
  ELSE IF s[i] \in Letters THEN GetScheme(s, i + 1)
  ELSE IF s[i] \in Digits \cup {"+", "-", "."}
    THEN IF i = 1 THEN [err |-> FALSE, scheme |-> Empty, rest |-> s]
                  ELSE GetScheme(s, i + 1)
  ELSE IF s[i] = ":"
    THEN IF i = 1 THEN [err |-> TRUE, scheme |-> Empty, rest |-> Empty]
                  ELSE [err |-> FALSE, scheme |-> SubSeq(s, 1, i - 1),
                        rest |-> SliceFrom(s, i)]
  ELSE [err |-> FALSE, scheme |-> Empty, rest |-> s]

\* url.validOptionalPort applied to the host: what follows the last ':' of
\* the authority must be digits
ValidPort(h) ==
  LET c == LastIndexOf(h, ":")
  IN c = 0 \/ \A i \in (c + 1)..Len(h) : h[i] \in Digits

\* url.unescape fails on a '%' that two hexadecimal digits do not follow
ValidEscapes(s) ==
  \A i \in 1..Len(s) :
    s[i] = "%" =>
      /\ i + 2 <= Len(s)
      /\ \A j \in {i + 1, i + 2} :
           s[j] \in Digits \cup {"a","b","c","d","e","f","A","B","C","D","E","F"}

\* a URL that did not parse
ParseError == [err |-> TRUE, scheme |-> Empty, host |-> Empty, path |-> Empty]

\* url.Parse on addresses without query, fragment, user information and
\* escapes: scheme, then "//" authority, then path; a scheme followed by
\* text that does not start with '/' is opaque and leaves Host and Path empty
Parse(s) ==
  LET g == GetScheme(s, 1) IN
  IF g.err THEN ParseError
  ELSE LET scheme == ToLower(g.scheme)
           rest == g.rest
       IN IF ~HasPrefix(rest, <<"/">>) /\ scheme # Empty
            THEN [err |-> FALSE, scheme |-> scheme, host |-> Empty, path |-> Empty]
          ELSE IF /\ ~HasPrefix(rest, <<"/">>)
                  /\ IndexOf(rest, ":") > 0
                  /\ (IndexOf(rest, "/") = 0 \/ IndexOf(rest, ":") < IndexOf(rest, "/"))
            THEN ParseError
          ELSE IF HasPrefix(rest, <<"/", "/">>) /\ (scheme # Empty \/ ~HasPrefix(rest, <<"/", "/", "/">>))
            THEN LET after == SliceFrom(rest, 2)
                     slash == IndexOf(after, "/")
                     host == IF slash = 0 THEN after ELSE SubSeq(after, 1, slash - 1)
                     pth == IF slash = 0 THEN Empty ELSE SliceFrom(after, slash - 1)
                 IN IF ValidPort(host) /\ ValidEscapes(pth)
                      THEN [err |-> FALSE, scheme |-> scheme, host |-> host, path |-> pth]
                      ELSE ParseError
          ELSE IF ValidEscapes(rest)
            THEN [err |-> FALSE, scheme |-> scheme, host |-> Empty, path |-> rest]
            ELSE ParseError

\* ------------------------------------------------------------- addresses
\* "tcp://h:1"
TcpAddress == <<"t","c","p",":","/","/","h",":","1">>
\* "unix:///s"
UnixAddress == <<"u","n","i","x",":","/","/","/","s">>
\* "/s"
BareAddress == <<"/","s">>
\* "x://h/p"
OtherAddress == <<"x",":","/","/","h","/","p">>
\* ":s"
NoSchemeAddress == <<":","s">>
\* "tcp://h:x"
BadPortAddress == <<"t","c","p",":","/","/","h",":","x">>

\* "TCP://h:1"
UpperTcpAddress == <<"T","C","P",":","/","/","h",":","1">>
\* "unix:s"
OpaqueUnixAddress == <<"u","n","i","x",":","s">>
\* "/%"
BadEscapeAddress == <<"/","%">>

\* the addresses the client is constructed with
Addresses == {TcpAddress, UnixAddress, BareAddress, OtherAddress,
              NoSchemeAddress, BadPortAddress, UpperTcpAddress,
              OpaqueUnixAddress, BadEscapeAddress}

\* no connection attempt
NoDial == [kind |-> "none", target |-> Empty]

\* newCLAMDTcpConn(t)
DialTcp(t) == [kind |-> "tcp", target |-> t]

\* newCLAMDUnixConn(t)
DialUnix(t) == [kind |-> "unix", target |-> t]

\* the switch of newConnection with the URL path in its default case
TransportPathOnly(a) ==
  LET u == Parse(a)
  IN CASE u.scheme = <<"t","c","p">> -> DialTcp(u.host)
       [] u.scheme = <<"u","n","i","x">> -> DialUnix(u.path)
       [] OTHER -> DialUnix(u.path)

\* the switch of newConnection on u.Scheme
Transport(a) ==
  LET u == Parse(a)
  IN CASE u.scheme = <<"t","c","p">> -> DialTcp(u.host)
       [] u.scheme = <<"u","n","i","x">> -> DialUnix(u.path)
       [] OTHER -> DialUnix(a)

\* newConnection: the error of url.Parse is returned before anything is
\* dialled; otherwise the transport is dialled, and the dial succeeds or
\* fails
NewConnectionResults(a) ==
  IF Parse(a).err
    THEN {[err |-> "address", dial |-> NoDial]}
    ELSE {[err |-> e, dial |-> Transport(a)] : e \in {"nil", "connect"}}

\* ------------------------------------------------------------ operations
ScanFileOps == {"SCAN", "RAWSCAN", "MULTISCAN", "CONTSCAN", "ALLMATCHSCAN"}

\* the operations built on simpleCommand
SimpleOps == {"PING", "VERSION", "STATS", "RELOAD", "SHUTDOWN"} \cup ScanFileOps

Ops == SimpleOps \cup {"INSTREAM"}

\* the operations that receive from the channel simpleCommand returned
\* without looking at its error first
RecvFirstOps == {"VERSION"} \cup ScanFileOps

\* the records the daemon may put in the reply to an operation
RecordsFor(o) ==
  CASE o \in {"PING", "RELOAD", "SHUTDOWN"} -> {PONG, RELOADING}
    [] o = "VERSION" -> {VersionLine, PONG}
    [] o = "STATS" -> {PfxPools, PoolsLine, StateLine, ThreadsLine, QueueLine,
                       MemstatsLine, PfxEnd, BogusLine}
    [] o = "INSTREAM" -> {FoundLine}
    [] OTHER -> {OkLine, FoundLine}

\* the paths the scan-file operations are called with: "f" and "a b"
Paths == {<<"f">>, <<"a"," ","b">>}

\* the command word of an operation
Word(o) ==
  CASE o = "PING" -> <<"P","I","N","G">>
    [] o = "VERSION" -> <<"V","E","R","S","I","O","N">>
    [] o = "STATS" -> <<"S","T","A","T","S">>
    [] o = "RELOAD" -> <<"R","E","L","O","A","D">>
    [] o = "SHUTDOWN" -> <<"S","H","U","T","D","O","W","N">>
    [] o = "SCAN" -> <<"S","C","A","N">>
    [] o = "RAWSCAN" -> <<"R","A","W","S","C","A","N">>
    [] o = "MULTISCAN" -> <<"M","U","L","T","I","S","C","A","N">>
    [] o = "CONTSCAN" -> <<"C","O","N","T","S","C","A","N">>
    [] o = "ALLMATCHSCAN" -> <<"A","L","L","M","A","T","C","H","S","C","A","N">>
    [] o = "INSTREAM" -> <<"I","N","S","T","R","E","A","M">>

\* the command of a scan-file operation without the space before the path
CommandNoSpace(o, p) == IF o \in ScanFileOps THEN Word(o) \o p ELSE Word(o)

\* the command an operation passes to sendCommand; the scan-file operations
\* format it as fmt.Sprintf("<VARIANT> %s", path)
Command(o, p) == IF o \in ScanFileOps THEN Word(o) \o <<" ">> \o p ELSE Word(o)

\* the sequences over S of length at most n
SeqsUpTo(S, n) == UNION {[1..k -> S] : k \in 0..n}

Min(a, b) == IF a < b THEN a ELSE b

\* the zero value of Stats
ZeroStats == [Pools |-> Empty, State |-> Empty, Threads |-> Empty,
              Memstats |-> Empty, Queue |-> Empty]

\* what the operation has not returned yet
NoRet == [kind |-> "none", err |-> "nil", rec |-> Empty, stats |-> ZeroStats]

VARIABLES
  op,         \* the public operation called
  path,       \* the path argument of a scan-file operation
  address,    \* the address the client was constructed with
  dial,       \* the connection attempt newConnection made
  pc,         \* position of the calling goroutine
  ret,        \* what the operation returned
  conn,       \* the connection: "none", "open", "closed"
  closedBy,   \* the tasks that invoked conn.Close(), in order
  sent,       \* what was written on the connection, in order
  reply,      \* the reply the daemon sends, in records
  wire,       \* the lines of the reply the decoder has still to read
  readErr,    \* a read of the decoder failed
  chState,    \* the result channel: "none", "nil", "open", "closed"
  ch,         \* the records in the result channel
  dec,        \* position of readResponse's decoder goroutine
  decLine,    \* the record the decoder is about to deliver
  wgDone,     \* the completion signal (wg.Done() was called)
  closer,     \* position of the wait-then-close goroutine
  watcher,    \* position of ScanStream's abort watcher
  abort,      \* the abort channel: "nil", "open", "closed"
  abortRecv,  \* the last value the watcher received: "none", "true", "false"
  abortEarly, \* the abort channel was closed before any chunk was sent
  srcLeft,    \* bytes the byte source has not yielded yet
  zeroRead,   \* a read of the byte source returned (0, nil)
  srcErr,     \* the error of the last r.Read of the upload loop
  stats,      \* the Stats value Stats() is filling
  got         \* the records the caller of ScanStream took from the sequence

vars == <<op, path, address, dial, pc, ret, conn, closedBy, sent, reply, wire, readErr, chState,
          ch, dec, decLine, wgDone, closer, watcher, abort, abortRecv, abortEarly, srcLeft,
          zeroRead, srcErr, stats, got>>

connVars == <<conn, closedBy>>
decVars == <<reply, wire, readErr, dec, decLine, wgDone>>
chVars == <<chState, ch>>
abortVars == <<abort, abortRecv, abortEarly>>
srcVars == <<srcLeft, zeroRead, srcErr>>

\* the state after NewClamd(address), for the addresses of A, at the call
\* of one public operation
InitWith(A) ==
  /\ op \in Ops
  /\ path \in IF op \in ScanFileOps THEN Paths ELSE {Empty}
  /\ address \in A
  /\ dial = NoDial
  /\ pc = "start"
  /\ ret = NoRet
  /\ conn = "none"
  /\ closedBy = <<>>
  /\ sent = <<>>
  /\ reply \in SeqsUpTo(RecordsFor(op), MaxReply)
  /\ wire = reply
  /\ readErr = FALSE
  /\ chState = "none"
  /\ ch = <<>>
  /\ dec = "none"
  /\ decLine = Empty
  /\ wgDone = FALSE
  /\ closer = "none"
  /\ watcher = "none"
  /\ abort \in IF op = "INSTREAM" THEN {"nil", "open", "closed"} ELSE {"nil"}
  /\ abortRecv = "none"
  /\ abortEarly = (abort = "closed")
  /\ srcLeft = MaxSrc
  /\ zeroRead = FALSE
  /\ srcErr = "nil"
  /\ stats = ZeroStats
  /\ got = <<>>

\* what follows newConnection does not look at the address: the operations
\* are explored for one address that parses and one that does not
Init == InitWith({TcpAddress, NoSchemeAddress})

\* ------------------------------------------------------- return values
RetOK == [NoRet EXCEPT !.kind = "ok"]
RetErr(e, r) == [NoRet EXCEPT !.kind = "error", !.err = e, !.rec = r]
RetRecord(r, e) == [NoRet EXCEPT !.kind = "record", !.rec = r, !.err = e]
RetNilRecord(e) == [NoRet EXCEPT !.kind = "nilrecord", !.err = e]
RetStats(st) == [NoRet EXCEPT !.kind = "stats", !.stats = st]
RetSeq == [NoRet EXCEPT !.kind = "seq"]

\* an entry of sent
Cmd(c) == [kind |-> "cmd", cmd |-> c, from |-> 0, n |-> 0]
Chunk(f, k) == [kind |-> "chunk", cmd |-> Empty, from |-> f, n |-> k]
Eof == [kind |-> "eof", cmd |-> Empty, from |-> 0, n |-> 0]

\* a write on the connection can succeed only while the connection is open
WriteResults == IF conn = "open" THEN {TRUE, FALSE} ELSE {FALSE}

\* ---------------------------------------------------------- simpleCommand
\* simpleCommand returned (nil, e): Ping, Stats, Reload and Shutdown return
\* e; Version and the scan-file operations evaluate <-ch on the nil channel
\* before they return
SimpleCommandFailed(e) ==
  IF op \in RecvFirstOps
    THEN /\ pc' = "recv"
         /\ chState' = "nil"
         /\ ret' = [NoRet EXCEPT !.err = e]
    ELSE /\ pc' = "returned"
         /\ ret' = RetErr(e, Empty)
         /\ UNCHANGED chState

\* where the operation continues when simpleCommand returned (ch, nil)
AfterSimpleCommand ==
  CASE op = "SHUTDOWN" -> "returned"
    [] op = "STATS" -> "range"
    [] OTHER -> "recv"

\* simpleCommand: c.newConnection()
SimpleCommandConnect ==
  /\ op \in SimpleOps
  /\ pc = "start"
  /\ \E r \in NewConnectionResults(address) :
       /\ dial' = r.dial
       /\ IF r.err = "nil"
            THEN /\ conn' = "open"
                 /\ pc' = "sendCommand"
                 /\ UNCHANGED <<ret, chState>>
            ELSE /\ SimpleCommandFailed(r.err)
                 /\ UNCHANGED conn
  /\ UNCHANGED <<op, path, address, closedBy, sent, reply, wire, readErr, ch, dec, decLine,
                 wgDone, closer,
                 watcher, abortVars, srcVars, stats, got>>

\* simpleCommand: conn.sendCommand(command), conn.readResponse(), the
\* go statement of the closer, and the return
SimpleCommandSend ==
  /\ op \in SimpleOps
  /\ pc = "sendCommand"
  /\ \E ok \in WriteResults :
       IF ok
         THEN /\ sent' = Append(sent, Cmd(Command(op, path)))
              /\ chState' = "open"
              /\ dec' = "read"
              /\ closer' = "wait"
              /\ pc' = AfterSimpleCommand
              /\ ret' = IF op = "SHUTDOWN" THEN RetOK ELSE ret
         ELSE /\ SimpleCommandFailed("write")
              /\ UNCHANGED <<sent, dec, closer>>
  /\ UNCHANGED <<op, path, address, dial, connVars, reply, wire, readErr, ch, decLine, wgDone,
                 watcher, abortVars,
                 srcVars, stats, got>>

\* the closer of simpleCommand without its wg.Wait()
SimpleCommandCloserNoWait ==
  /\ op \in SimpleOps
  /\ closer = "wait"
  /\ closer' = "done"
  /\ conn' = "closed"
  /\ closedBy' = Append(closedBy, "closer")
  /\ UNCHANGED <<op, path, address, dial, pc, ret, sent, decVars, chVars, watcher, abortVars,
                 srcVars, stats, got>>

\* the closer of simpleCommand: wg.Wait(), then conn.Close()
SimpleCommandCloser ==
  /\ op \in SimpleOps
  /\ closer = "wait"
  /\ wgDone
  /\ closer' = "done"
  /\ conn' = "closed"
  /\ closedBy' = Append(closedBy, "closer")
  /\ UNCHANGED <<op, path, address, dial, pc, ret, sent, decVars, chVars, watcher, abortVars,
                 srcVars, stats, got>>

\* ----------------------------------------------------------- readResponse
\* the decoder reads the next line of the reply; a read on a closed
\* connection, a transport error and the daemon closing end the loop
DecoderRead ==
  /\ dec = "read"
  /\ \E res \in {"line", "eof", "err"} :
       CASE res = "line" ->
              /\ conn = "open"
              /\ wire # <<>>
              /\ decLine' = Head(wire)
              /\ wire' = Tail(wire)
              /\ dec' = "send"
              /\ UNCHANGED readErr
         [] res = "eof" ->
              /\ conn = "open"
              /\ wire = <<>>
              /\ dec' = "closing"
              /\ UNCHANGED <<wire, decLine, readErr>>
         [] res = "err" ->
              /\ dec' = "closing"
              /\ readErr' = TRUE
              /\ UNCHANGED <<wire, decLine>>
  /\ UNCHANGED <<reply, op, path, address, dial, pc, ret, connVars, sent, chVars, wgDone, closer, watcher,
                 abortVars, srcVars, stats, got>>

\* the decoder delivers the record: ch <- result
DecoderSend ==
  /\ dec = "send"
  /\ chState = "open"
  /\ Len(ch) < ChanCap
  /\ ch' = Append(ch, decLine)
  /\ dec' = "read"
  /\ UNCHANGED <<op, path, address, dial, pc, ret, connVars, sent, reply, wire, readErr, chState,
                 decLine, wgDone,
                 closer, watcher, abortVars, srcVars, stats, got>>

\* the decoder's deferred close(ch)
DecoderCloseCh ==
  /\ dec = "closing"
  /\ chState' = "closed"
  /\ dec' = "signal"
  /\ UNCHANGED <<op, path, address, dial, pc, ret, connVars, sent, reply, wire, readErr, ch,
                 decLine, wgDone,
                 closer, watcher, abortVars, srcVars, stats, got>>

\* the decoder's deferred wg.Done(): the completion signal
DecoderDone ==
  /\ dec = "signal"
  /\ wgDone' = TRUE
  /\ dec' = "done"
  /\ UNCHANGED <<op, path, address, dial, pc, ret, connVars, sent, reply, wire, readErr, chVars,
                 decLine, closer,
                 watcher, abortVars, srcVars, stats, got>>

\* a receive from the channel is possible: a record is buffered, or the
\* channel is closed and empty (the receive then yields nil)
CanRecv == chState \in {"open", "closed"} /\ (ch # <<>> \/ chState = "closed")

\* the receive yields nil
RecvNil == ch = <<>>

\* ------------------------------------------------------- Ping and Reload
\* s := <-ch and the switch on s.Raw; s is nil when the channel was closed
\* without a record, and s.Raw then dereferences nil
ExpectOne(expected) ==
  /\ pc = "recv"
  /\ CanRecv
  /\ IF RecvNil
       THEN /\ pc' = "panicked"
            /\ UNCHANGED <<ret, ch>>
       ELSE /\ ch' = Tail(ch)
            /\ pc' = "returned"
            /\ ret' = IF Head(ch) = expected THEN RetOK
                                             ELSE RetErr("invalid", Head(ch))
  /\ UNCHANGED <<op, path, address, dial, connVars, sent, decVars, chState, closer, watcher,
                 abortVars, srcVars, stats, got>>

Ping ==
  /\ op = "PING"
  /\ ExpectOne(PONG)

Reload ==
  /\ op = "RELOAD"
  /\ ExpectOne(RELOADING)

\* ---------------------------------- Version and the scan-file operations
\* return <-ch, err: a receive from a nil channel never completes
RecvFirst ==
  /\ op \in RecvFirstOps
  /\ pc = "recv"
  /\ CanRecv
  /\ IF RecvNil
       THEN /\ ret' = RetNilRecord(ret.err)
            /\ UNCHANGED ch
       ELSE /\ ret' = RetRecord(Head(ch), ret.err)
            /\ ch' = Tail(ch)
  /\ pc' = "returned"
  /\ UNCHANGED <<op, path, address, dial, connVars, sent, decVars, chState, closer, watcher,
                 abortVars, srcVars, stats, got>>

\* ------------------------------------------------------------------ Stats
\* the body of the loop of Stats on one record: what it does to the Stats
\* value, and whether it goes on, returns the error or panics
StatsRecord(st, raw) ==
  IF HasPrefix(raw, PfxPools)
    THEN IF SliceOK(raw, 6)
           THEN [out |-> "next", st |-> [st EXCEPT !.Pools = Trim(SliceFrom(raw, 6))]]
           ELSE [out |-> "panic", st |-> st]
  ELSE IF HasPrefix(raw, PfxState)
    THEN [out |-> "next", st |-> [st EXCEPT !.State = raw]]
  ELSE IF HasPrefix(raw, PfxThreads)
    THEN [out |-> "next", st |-> [st EXCEPT !.Threads = raw]]
  ELSE IF HasPrefix(raw, PfxQueue)
    THEN [out |-> "next", st |-> [st EXCEPT !.Queue = raw]]
  ELSE IF HasPrefix(raw, PfxMemstats)
    THEN [out |-> "next", st |-> [st EXCEPT !.Memstats = raw]]
  ELSE IF HasPrefix(raw, PfxEnd)
    THEN [out |-> "next", st |-> st]
  ELSE [out |-> "unknown", st |-> st]

\* for s := range ch { ... }; return stats, nil
Stats ==
  /\ op = "STATS"
  /\ pc = "range"
  /\ CanRecv
  /\ IF RecvNil
       THEN /\ pc' = "returned"
            /\ ret' = RetStats(stats)
            /\ UNCHANGED <<ch, stats>>
       ELSE LET r == StatsRecord(stats, Head(ch)) IN
            /\ ch' = Tail(ch)
            /\ stats' = r.st
            /\ pc' = CASE r.out = "next" -> "range"
                       [] r.out = "panic" -> "panicked"
                       [] OTHER -> "returned"
            /\ ret' = IF r.out = "unknown" THEN RetErr("unknown", Head(ch))
                                           ELSE ret
  /\ UNCHANGED <<op, path, address, dial, connVars, sent, decVars, chState, closer, watcher,
                 abortVars, srcVars, got>>

\* ------------------------------------------------------------- ScanStream
\* c.newConnection() and the go statement of the abort watcher
ScanStreamConnect ==
  /\ op = "INSTREAM"
  /\ pc = "start"
  /\ \E r \in NewConnectionResults(address) :
       /\ dial' = r.dial
       /\ IF r.err = "nil"
            THEN /\ conn' = "open"
                 /\ watcher' = "recv"
                 /\ pc' = "sendCommand"
                 /\ UNCHANGED ret
            ELSE /\ pc' = "returned"
                 /\ ret' = RetErr(r.err, Empty)
                 /\ UNCHANGED <<conn, watcher>>
  /\ UNCHANGED <<op, path, address, closedBy, sent, decVars, chVars, closer, abortVars,
                 srcVars, stats, got>>

\* conn.sendCommand("INSTREAM")
ScanStreamSendCommand ==
  /\ op = "INSTREAM"
  /\ pc = "sendCommand"
  /\ \E ok \in WriteResults :
       IF ok
         THEN /\ sent' = Append(sent, Cmd(Command(op, path)))
              /\ pc' = "read"
              /\ UNCHANGED ret
         ELSE /\ pc' = "returned"
              /\ ret' = RetErr("write", Empty)
              /\ UNCHANGED sent
  /\ UNCHANGED <<op, path, address, dial, connVars, decVars, chVars, closer, watcher, abortVars,
                 srcVars, stats, got>>

\* what a Read of the byte source can return: nr bytes and an error
ReadResults ==
  (0..Min(CHUNK_SIZE, srcLeft)) \X {"nil", "EOF", "fail"}

\* one turn of the upload loop that sends buf[0:nr] also when nr = 0
ScanStreamUploadAlways ==
  /\ op = "INSTREAM"
  /\ pc = "read"
  /\ \E r \in ReadResults, ok \in WriteResults :
       LET nr == r[1]
           err == IF ok THEN "nil" ELSE "write"
       IN /\ srcLeft' = srcLeft - nr
          /\ zeroRead' = (zeroRead \/ (nr = 0 /\ r[2] = "nil"))
          /\ srcErr' = r[2]
          /\ sent' = IF ok
                       THEN Append(sent, Chunk(MaxSrc - srcLeft + 1, nr))
                       ELSE sent
          /\ pc' = IF err # "nil" \/ (nr = 0 /\ r[2] # "nil")
                     THEN "sendEOF" ELSE "read"
  /\ UNCHANGED <<op, path, address, dial, ret, connVars, decVars, chVars, closer, watcher,
                 abortVars, stats, got>>

\* one turn of the upload loop: r.Read(buf); conn.sendChunk(buf[0:nr]) when
\* nr > 0, whose result replaces the error of the read; break on an error
ScanStreamUpload ==
  /\ op = "INSTREAM"
  /\ pc = "read"
  /\ \E r \in ReadResults, ok \in WriteResults :
       LET nr == r[1]
           err == IF nr > 0 THEN (IF ok THEN "nil" ELSE "write") ELSE r[2]
       IN /\ srcLeft' = srcLeft - nr
          /\ zeroRead' = (zeroRead \/ (nr = 0 /\ r[2] = "nil"))
          /\ srcErr' = r[2]
          /\ sent' = IF nr > 0 /\ ok
                       THEN Append(sent, Chunk(MaxSrc - srcLeft + 1, nr))
                       ELSE sent
          /\ pc' = IF err # "nil" THEN "sendEOF" ELSE "read"
  /\ UNCHANGED <<op, path, address, dial, ret, connVars, decVars, chVars, closer, watcher,
                 abortVars, stats, got>>

\* conn.sendEOF(), past the loop whose body declares the error of the read
ScanStreamSendEOF ==
  /\ op = "INSTREAM"
  /\ pc = "sendEOF"
  /\ srcErr' = "nil"
  /\ \E ok \in WriteResults :
       IF ok
         THEN /\ sent' = Append(sent, Eof)
              /\ pc' = "readResponse"
              /\ UNCHANGED ret
         ELSE /\ pc' = "returned"
              /\ ret' = RetErr("write", Empty)
              /\ UNCHANGED sent
  /\ UNCHANGED <<op, path, address, dial, connVars, decVars, chVars, closer, watcher, abortVars,
                 srcLeft, zeroRead, stats, got>>

\* the end of ScanStream with the connection closed by the caller's
\* goroutine on return (a deferred conn.Close()) instead of by a closer
ScanStreamReadResponseClosing ==
  /\ op = "INSTREAM"
  /\ pc = "readResponse"
  /\ chState' = "open"
  /\ dec' = "read"
  /\ conn' = "closed"
  /\ closedBy' = Append(closedBy, "caller")
  /\ pc' = "returned"
  /\ ret' = RetSeq
  /\ UNCHANGED <<op, path, address, dial, sent, reply, wire, readErr, ch, decLine, wgDone,
                 closer, watcher, abortVars, srcVars, stats, got>>

\* conn.readResponse(), the go statement of the closer, return ch, nil
ScanStreamReadResponse ==
  /\ op = "INSTREAM"
  /\ pc = "readResponse"
  /\ chState' = "open"
  /\ dec' = "read"
  /\ closer' = "wait"
  /\ pc' = "returned"
  /\ ret' = RetSeq
  /\ UNCHANGED <<op, path, address, dial, connVars, sent, reply, wire, readErr, ch, decLine, wgDone,
                 watcher,
                 abortVars, srcVars, stats, got>>

\* the closer of ScanStream: wg.Wait(), then conn.Close()
ScanStreamCloser ==
  /\ op = "INSTREAM"
  /\ closer = "wait"
  /\ wgDone
  /\ closer' = "done"
  /\ conn' = "closed"
  /\ closedBy' = Append(closedBy, "closer")
  /\ UNCHANGED <<op, path, address, dial, pc, ret, sent, decVars, chVars, watcher, abortVars,
                 srcVars, stats, got>>

\* the abort watcher taking the value received for allowRunning
WatcherRecvValueUsed ==
  /\ watcher = "recv"
  /\ abort = "open"
  /\ \E v \in BOOLEAN :
       LET allowRunning == v
       IN /\ abortRecv' = IF v THEN "true" ELSE "false"
          /\ watcher' = IF allowRunning THEN "recv" ELSE "close"
  /\ UNCHANGED <<op, path, address, dial, pc, ret, connVars, sent, decVars,
                 chVars, closer, abort, abortEarly, srcVars, stats, got>>

\* the abort watcher receives a value sent on the abort channel:
\* _, allowRunning := <-abort yields allowRunning = true, the loop goes on
WatcherRecvValue ==
  /\ watcher = "recv"
  /\ abort = "open"
  /\ \E v \in BOOLEAN :
       LET allowRunning == TRUE
       IN /\ abortRecv' = IF v THEN "true" ELSE "false"
          /\ watcher' = IF allowRunning THEN "recv" ELSE "close"
  /\ UNCHANGED <<op, path, address, dial, pc, ret, connVars, sent, decVars,
                 chVars, closer, abort, abortEarly, srcVars, stats, got>>

\* an abort watcher that also leaves its loop once the connection is closed
WatcherRecvClosedOrConn ==
  /\ watcher = "recv"
  /\ abort = "closed" \/ conn = "closed"
  /\ watcher' = "close"
  /\ UNCHANGED <<op, path, address, dial, pc, ret, connVars, sent, decVars, chVars, closer,
                 abortVars, srcVars, stats, got>>

\* the abort watcher receives from the closed abort channel:
\* allowRunning = false, break
WatcherRecvClosed ==
  /\ watcher = "recv"
  /\ abort = "closed"
  /\ watcher' = "close"
  /\ UNCHANGED <<op, path, address, dial, pc, ret, connVars, sent, decVars, chVars, closer,
                 abortVars, srcVars, stats, got>>

\* the abort watcher's conn.Close()
WatcherClose ==
  /\ watcher = "close"
  /\ watcher' = "done"
  /\ conn' = "closed"
  /\ closedBy' = Append(closedBy, "watcher")
  /\ UNCHANGED <<op, path, address, dial, pc, ret, sent, decVars, chVars, closer, abortVars,
                 srcVars, stats, got>>

\* a chunk was sent
ChunkSent == \E i \in 1..Len(sent) : sent[i].kind = "chunk"

\* the caller of ScanStream closes the abort channel it passed
AbortClose ==
  /\ op = "INSTREAM"
  /\ abort = "open"
  /\ abort' = "closed"
  /\ abortEarly' = ~ChunkSent
  /\ UNCHANGED <<op, path, address, dial, pc, ret, connVars, sent, decVars, chVars, closer,
                 watcher, abortRecv, srcVars, stats, got>>

\* the caller of ScanStream takes the next record of the sequence it was
\* returned, or sees the sequence end
CallerRecv ==
  /\ op = "INSTREAM"
  /\ pc = "returned"
  /\ ret.kind = "seq"
  /\ CanRecv
  /\ IF RecvNil
       THEN /\ pc' = "drained"
            /\ UNCHANGED <<ch, got>>
       ELSE /\ got' = Append(got, Head(ch))
            /\ ch' = Tail(ch)
            /\ UNCHANGED pc
  /\ UNCHANGED <<op, path, address, dial, ret, connVars, sent, decVars, chState, closer, watcher,
                 abortVars, srcVars, stats>>

\* ------------------------------------------------------ the specification
Decoder == DecoderRead \/ DecoderSend \/ DecoderCloseCh \/ DecoderDone

Caller ==
  \/ SimpleCommandConnect
  \/ SimpleCommandSend
  \/ Ping
  \/ Reload
  \/ RecvFirst
  \/ Stats
  \/ ScanStreamConnect
  \/ ScanStreamSendCommand
  \/ ScanStreamUpload
  \/ ScanStreamSendEOF
  \/ ScanStreamReadResponse

Closer == SimpleCommandCloser \/ ScanStreamCloser

Watcher == WatcherRecvClosed \/ WatcherClose

Next ==
  \/ Caller
  \/ Decoder
  \/ Closer
  \/ Watcher
  \/ WatcherRecvValue
  \/ AbortClose
  \/ CallerRecv

Spec == Init /\ [][Next]_vars

\* newConnection alone, on every address
NewConnection == SimpleCommandConnect \/ ScanStreamConnect

ConnSpec == InitWith(Addresses) /\ [][NewConnection]_vars

\* every goroutine that can take a step eventually takes one, and the
\* caller of ScanStream drains the sequence it was returned; nothing makes
\* the caller close or send on the abort channel
FairSpec ==
  /\ Spec
  /\ WF_vars(Caller)
  /\ WF_vars(Decoder)
  /\ WF_vars(Closer)
  /\ WF_vars(Watcher)
  /\ WF_vars(CallerRecv)

\* only the abort watcher is sure to run when it can
WatcherFairSpec == Spec /\ WF_vars(Watcher)

\* the operation has returned to its caller
Returned == pc \in {"returned", "drained"}

TypeOK ==
  /\ op \in Ops
  /\ pc \in {"start", "sendCommand", "recv", "range", "read", "sendEOF",
             "readResponse", "returned", "drained", "panicked"}
  /\ conn \in {"none", "open", "closed"}
  /\ chState \in {"none", "nil", "open", "closed"}
  /\ Len(ch) <= ChanCap
  /\ dec \in {"none", "read", "send", "closing", "signal", "done"}
  /\ closer \in {"none", "wait", "done"}
  /\ watcher \in {"none", "recv", "close", "done"}
  /\ abort \in {"nil", "open", "closed"}
  /\ srcLeft \in 0..MaxSrc

\* --------------------------------------------------- notions of the claims
\* connection establishment or the command write failed
SetupFailed == ret.err \in {"address", "connect", "write"}

\* the calling goroutine has ended: returned or panicked
Finished == Returned \/ pc = "panicked"

\* the task that made the latest Close call
LastCloser(cb) == cb[Len(cb)]

\* this step is a Close call by task t
ClosesNow(t) == Len(closedBy') > Len(closedBy) /\ LastCloser(closedBy') = t

\* the end-of-stream terminator was written
EofSent == \E i \in 1..Len(sent) : sent[i].kind = "eof"

\* ScanStream is in the Uploading state: connected, terminator not yet sent
Uploading == op = "INSTREAM" /\ conn # "none" /\ ~EofSent

\* the result sequence is drained and the completion signal has fired
DrainedAndSignalled == wgDone /\ chState = "closed" /\ ch = <<>>

\* raw starts with one of the prefixes Stats recognizes
Recognized(raw) ==
  \E p \in {PfxPools, PfxState, PfxThreads, PfxQueue, PfxMemstats, PfxEnd} :
    HasPrefix(raw, p)

\* ------------------------------------------------------------------ claims
\* C1: whenever connection establishment or the command write failed, the
\* operation has returned that error to its caller; it is not waiting on
\* anything and does not go on with the exchange.
C1_FailureIsReturned ==
  SetupFailed => (pc = "returned" /\ ret.kind = "error")

\* C2: every connection opened by an operation built on simpleCommand is
\* eventually closed, whatever the operation returns.
C2_SimpleConnEventuallyClosed ==
  (op \in SimpleOps /\ conn = "open") ~> (conn = "closed")

\* C3: Close is invoked on the operation's connection at most once, in every
\* interleaving of the operation's tasks.
C3_CloseAtMostOnce == Len(closedBy) <= 1

\* C4: the Close call of the wait-then-close task of simpleCommand and of
\* ScanStream happens only when the completion signal is satisfied: the
\* decoder has ended, delivered what it read and closed the result sequence.
C4_CloserClosesAfterSignal ==
  [][ClosesNow("closer") =>
       (wgDone /\ dec = "done" /\ chState = "closed")]_vars

\* C4 happens: the closer closed the connection of an operation whose
\* decoder delivered a record and then signalled completion
C4_Witness ==
  /\ closer = "done"
  /\ closedBy = <<"closer">>
  /\ reply # <<>>
  /\ wire = <<>>
  /\ ~readErr

\* C5: every ScanStream call that obtained a connection ends with the
\* connection closed, and a closed connection stays closed.
C5_StreamConnEventuallyClosed ==
  /\ (op = "INSTREAM" /\ conn = "open") ~> (conn = "closed")
  /\ [][conn = "closed" => conn' = "closed"]_vars

\* C6: in ScanStream the abort watcher closes the connection only in the
\* Uploading state, and once the terminator was sent every Close comes
\* after the sequence was drained and the completion signal fired.
C6_CancelOnlyWhileUploading ==
  [][/\ ClosesNow("watcher") => Uploading
     /\ (EofSent /\ Len(closedBy') > Len(closedBy)) => DrainedAndSignalled]_vars

\* C7: when the abort channel was closed before any chunk was sent,
\* ScanStream does not panic and what it returns is an error with no
\* sequence, or a sequence that delivers no verdict.
C7_EarlyCancelNoVerdict ==
  (op = "INSTREAM" /\ abortEarly) =>
     /\ pc # "panicked"
     /\ got = <<>>
     /\ Returned => ret.kind \in {"error", "seq"}

\* C8: Ping returns success if and only if the reply is exactly the one
\* record PONG; every other reply yields an invalid-response error.
C8_PingIffPong ==
  (op = "PING" /\ Finished /\ ~SetupFailed /\ ~readErr) =>
     IF reply = <<PONG>>
       THEN Returned /\ ret = RetOK
       ELSE Returned /\ ret.kind = "error" /\ ret.err = "invalid"

\* C9: no operation ends by a panic, whatever the daemon replies.
C9_NoPanic == pc # "panicked"

\* C10: Stats fails with an error naming the offending record if and only if
\* the reply holds a record that starts with none of the recognized
\* prefixes, and then returns no Stats value.
C10_StatsUnknownIff ==
  (op = "STATS" /\ Finished /\ ~SetupFailed /\ ~readErr) =>
     LET bad == {reply[i] : i \in {j \in 1..Len(reply) : ~Recognized(reply[j])}}
         failsNaming == /\ Returned
                        /\ ret.kind = "error"
                        /\ ret.err = "unknown"
                        /\ ret.rec \in bad
     IN /\ failsNaming <=> (bad # {})
        /\ failsNaming => ret.stats = ZeroStats

\* the Pools text the specification gives for a POOLS record: what follows
\* "POOLS" and its separator, without the surrounding spaces ("POOLS: 1"
\* gives "1"); nothing follows a bare "POOLS"
PoolsText(raw) ==
  IF Len(raw) <= Len(PfxPools) + 1 THEN Empty
  ELSE Trim(SubSeq(raw, Len(PfxPools) + 2, Len(raw)))

\* the Stats value after one more record of a reply
StatsAfter(st, raw) ==
  IF HasPrefix(raw, PfxPools) THEN [st EXCEPT !.Pools = PoolsText(raw)]
  ELSE IF HasPrefix(raw, PfxState) THEN [st EXCEPT !.State = raw]
  ELSE IF HasPrefix(raw, PfxThreads) THEN [st EXCEPT !.Threads = raw]
  ELSE IF HasPrefix(raw, PfxQueue) THEN [st EXCEPT !.Queue = raw]
  ELSE IF HasPrefix(raw, PfxMemstats) THEN [st EXCEPT !.Memstats = raw]
  ELSE st

RECURSIVE StatsOfReply(_, _)
\* the Stats value of a whole reply
StatsOfReply(st, rs) ==
  IF rs = <<>> THEN st ELSE StatsOfReply(StatsAfter(st, Head(rs)), Tail(rs))

\* every record of the reply starts with a recognized prefix
AllRecognized == \A i \in 1..Len(reply) : Recognized(reply[i])

\* C11: on a reply whose records all start with a recognized prefix, Stats
\* drains the sequence and returns, without error, the Stats value whose
\* Pools is the trimmed text after the POOLS prefix, whose State, Threads,
\* Queue and Memstats are the raw records, and which END leaves unchanged.
C11_StatsValue ==
  (op = "STATS" /\ Finished /\ ~SetupFailed /\ ~readErr /\ AllRecognized) =>
     /\ Returned
     /\ ret.kind = "stats"
     /\ ret.err = "nil"
     /\ ret.stats = StatsOfReply(ZeroStats, reply)
     /\ wire = <<>>
     /\ ch = <<>>

\* C12: every chunk the upload loop of ScanStream sends holds between 1 and
\* CHUNK_SIZE bytes, a read of zero bytes sends nothing, and the zero-length
\* chunk is written only as the terminator, the last write.
C12_ChunkLengths ==
  /\ [](\A i \in 1..Len(sent) :
          /\ sent[i].kind = "chunk" => (1 <= sent[i].n /\ sent[i].n <= CHUNK_SIZE)
          /\ sent[i].kind = "eof" => i = Len(sent))
  /\ [][(pc = "read" /\ srcLeft' = srcLeft) => sent' = sent]_vars

\* C12 happens: after a read of zero bytes, a full chunk and a shorter one,
\* the terminator was written
C12_Witness ==
  /\ EofSent
  /\ zeroRead
  /\ \E i \in 1..Len(sent) : sent[i].kind = "chunk" /\ sent[i].n = CHUNK_SIZE
  /\ \E i \in 1..Len(sent) : sent[i].kind = "chunk" /\ sent[i].n < CHUNK_SIZE

\* the records the decoder has emitted on the result channel so far
Emitted == Len(reply) - Len(wire) - (IF dec = "send" THEN 1 ELSE 0)

\* C13: a scan-file operation writes the one command "<VARIANT> <path>" on
\* its connection and, when connect and write succeeded, returns the first
\* record the decoder emitted (nil when the sequence ended without one) and
\* takes no further record from the sequence.
C13_ScanFileFirstRecord ==
  (op \in ScanFileOps /\ Returned) =>
     /\ sent = <<Cmd(Word(op) \o <<" ">> \o path)>>
     /\ ret.err = "nil"
     /\ ret.kind = "record" => (ret.rec = reply[1] /\ Emitted - Len(ch) = 1)
     /\ ret.kind = "nilrecord" => (Emitted = 0 /\ chState = "closed")
     /\ ret.kind \in {"record", "nilrecord"}

\* C13 happens: a scan-file operation returned the first of two records and
\* the decoder emitted the second, which stays in the sequence
C13_Witness ==
  /\ op \in ScanFileOps
  /\ Returned
  /\ ret.kind = "record"
  /\ reply = <<FoundLine, OkLine>>
  /\ ch = <<OkLine>>
  /\ path = <<"a"," ","b">>

\* C14: after a successful upload ScanStream returns the sequence without
\* waiting: at its return the completion signal is not satisfied, the
\* decoder has produced no record, the caller's goroutine has not closed the
\* connection, and the closer is left waiting in the background.
C14_ReturnsWithoutWaiting ==
  [][(op = "INSTREAM" /\ pc = "readResponse" /\ pc' = "returned") =>
       /\ EofSent
       /\ ret' = RetSeq
       /\ ~wgDone'
       /\ Emitted' = 0
       /\ got' = <<>>
       /\ closer' = "wait"
       /\ closedBy' = closedBy
       /\ conn' = conn]_vars

\* C14 happens: ScanStream has returned the sequence while the connection is
\* open, the daemon's reply is unread and the closer waits
C14_Witness ==
  /\ op = "INSTREAM"
  /\ pc = "returned"
  /\ ret = RetSeq
  /\ conn = "open"
  /\ reply # <<>>
  /\ wire = reply
  /\ dec = "read"
  /\ closer = "wait"
  /\ ~wgDone

\* C15: newConnection dials what the address selects: scheme tcp a TCP
\* stream to the host:port, scheme unix a local socket at the URL path, any
\* other address that parses a local socket at the whole address string; an
\* address that does not parse gives an error and nothing is dialled.
C15_TransportSelection ==
  pc # "start" =>
     LET u == Parse(address)
     IN /\ u.err => (dial = NoDial /\ conn = "none" /\ ret.err = "address")
        /\ (~u.err /\ u.scheme = <<"t","c","p">>) => dial = DialTcp(u.host)
        /\ (~u.err /\ u.scheme = <<"u","n","i","x">>) => dial = DialUnix(u.path)
        /\ (~u.err /\ u.scheme \notin {<<"t","c","p">>, <<"u","n","i","x">>}) =>
              dial = DialUnix(address)
        /\ address = TcpAddress => dial = DialTcp(<<"h",":","1">>)
        /\ address = UnixAddress => dial = DialUnix(<<"/","s">>)
        /\ address = BareAddress => dial = DialUnix(<<"/","s">>)
        /\ address = OtherAddress => dial = DialUnix(OtherAddress)
        /\ address = UpperTcpAddress => dial = DialTcp(<<"h",":","1">>)
        /\ address = OpaqueUnixAddress => dial = DialUnix(Empty)
        /\ address \in {NoSchemeAddress, BadPortAddress, BadEscapeAddress} =>
              dial = NoDial

\* C15 happens: a connection was made for an address with a scheme that is
\* neither tcp nor unix
C15_Witness ==
  /\ address = OtherAddress
  /\ conn = "open"
  /\ dial.kind = "unix"

\* the positions of the chunks in sent
ChunkIndexes == {i \in 1..Len(sent) : sent[i].kind = "chunk"}

\* the number of bytes in the chunks written before position i of sent
PayloadBefore(i) ==
  LET RECURSIVE Sum(_)
      Sum(k) == IF k = 0 THEN 0
                ELSE Sum(k - 1) + (IF sent[k].kind = "chunk" THEN sent[k].n ELSE 0)
  IN Sum(i - 1)

\* the number of bytes read from the byte source
BytesRead == MaxSrc - srcLeft

\* the upload loop of ScanStream is over
UploadOver == pc \notin {"start", "sendCommand", "read"}

\* the writes of ScanStream are in order: the command first, then chunks
\* that carry the bytes of the source in the order they were read, then at
\* most one terminator, the last write; the response is read only after the
\* terminator was written
WritesInOrder ==
  /\ \A i \in 1..Len(sent) : (sent[i].kind = "cmd") <=> (i = 1)
  /\ \A i \in ChunkIndexes : sent[i].from = PayloadBefore(i) + 1
  /\ \A i \in 1..Len(sent) : sent[i].kind = "eof" => i = Len(sent)
  /\ PayloadBefore(Len(sent) + 1) <= BytesRead
  /\ dec # "none" => EofSent

\* C16: on the connection of ScanStream the command is written before any
\* chunk, the chunks carry the bytes read in the order they were read and
\* together all of them, the terminator is written at most once, after the
\* last chunk, and the response is read only after the terminator.
C16_OrderedWrites ==
  op = "INSTREAM" =>
     /\ WritesInOrder
     /\ UploadOver => PayloadBefore(Len(sent) + 1) = BytesRead

\* C17: the abort watcher calls Close only when the abort channel has been
\* closed, and then it does; a value received from the abort channel, true
\* or false, leaves the watcher in its loop and the connection as it is.
C17_WatcherClosesOnlyOnClosedAbort ==
  /\ [][ClosesNow("watcher") => abort = "closed"]_vars
  /\ [][abortRecv' # abortRecv =>
          (watcher' = "recv" /\ closedBy' = closedBy /\ conn' = conn)]_vars
  /\ (watcher = "recv" /\ abort = "closed") ~> (watcher = "done")

\* C17 happens: the watcher received a value and, later, the channel was
\* closed and the watcher closed the connection
C17_Witness ==
  /\ abortRecv = "false"
  /\ abort = "closed"
  /\ watcher = "done"
  /\ closedBy # <<>>
  /\ closedBy[1] = "watcher"

\* C18: every error the byte source returns, end of input or not, ends the
\* upload: the turn of the loop that got it leaves the loop, the terminator
\* is then written and, where that write succeeds, ScanStream returns the
\* response sequence with no error.
C18_SourceErrorEndsUpload ==
  /\ [][(pc = "read" /\ srcErr' # "nil" /\ (srcLeft' # srcLeft \/ pc' # pc))
          => pc' = "sendEOF"]_vars
  /\ [][(pc = "sendEOF" /\ pc' # pc) => (EofSent' \/ ret'.err = "write")]_vars
  /\ []((op = "INSTREAM" /\ Returned /\ EofSent) => ret.err = "nil")

\* the tasks ScanStream started have all terminated
TasksTerminated == watcher = "done" /\ closer = "done" /\ dec = "done"

\* C19: the tasks of one ScanStream call have all terminated only if the
\* abort channel was closed: while it is not closed (open, or nil), a started
\* watcher stays at its receive, whatever happens to the connection and
\* whatever ScanStream returned.
C19_WatcherBlockedUnlessAbortClosed ==
  /\ (watcher # "none" /\ abort # "closed") => watcher = "recv"
  /\ TasksTerminated => abort = "closed"

\* C19 happens: no abort channel was passed, the response was drained, the
\* reader task and the closer are done and the connection is closed, and the
\* watcher still waits
C19_Witness ==
  /\ op = "INSTREAM"
  /\ abort = "nil"
  /\ pc = "drained"
  /\ dec = "done"
  /\ closer = "done"
  /\ conn = "closed"
  /\ watcher = "recv"

====
